---- MODULE Spec2Model ----
(***************************************************************************)
(* archive-weibo: listing of a user's timeline, then a bounded-concurrency *)
(* download of every post (images, videos through the lux helper, a text   *)
(* manifest) into one directory per post.                                  *)
(*                                                                         *)
(* The repository holds the pipeline twice: the free functions of          *)
(* src/weibo_download.rs (download / get_posts / download_post) and the    *)
(* WeiboPost methods of src/weibo_post.rs driven by src/main.rs.  The      *)
(* variable impl says which of the two a behaviour runs.                   *)
(***************************************************************************)
EXTENDS Integers, Sequences, FiniteSets, Bags, TLC

VARIABLES
    impl,        \* "weibo_download" or "weibo_post": which pipeline runs
    api,         \* the listing endpoint: response to page 1, 2, ... (then empty pages)
    run,         \* number of the current process run against the base directory
    phase,       \* "auth", "listing", "downloading", "reporting", "exited"
    exit,        \* "running", "Ok", "Err" (main returned) or "panic" (process aborted)
    page,        \* next page number of the get_posts loop
    requests,    \* page numbers requested so far in this run, in request order
    posts,       \* the Vec<WeiboPost> accumulated by get_posts
    next,        \* number of posts the stream has handed to buffer_unordered
    inflight,    \* the futures held by buffer_unordered (a bag: FuturesUnordered)
    results,     \* the collected Vec of results, in completion order
    errs,        \* the filtered results still to be printed
    printed,     \* what eprintln has written to stderr, in order
    progress,    \* post ids of the "Downloaded <id>" lines on stdout, in order
    dirs,        \* directories under the base directory
    files,       \* files under the base directory: records [dir, name, data]
    netReqs,     \* bag of the image requests issued in this run
    helperRuns,  \* bag of the lux processes spawned in this run
    fsWrites,    \* bag of the directory and file creations of this run
    returned,    \* bag of [post, how, res]: the download_post calls that have returned
    dirsAtStart, \* dirs when this run started
    filesAtStart,\* files when this run started
    prevExit     \* how the previous run ended ("none" in the first run)

vars == <<impl, api, run, phase, exit, page, requests, posts, next, inflight,
          results, errs, printed, progress, dirs, files, netReqs, helperRuns,
          fsWrites, returned, dirsAtStart, filesAtStart, prevExit>>

(***************************************************************************)
(* Bounds of the model.                                                    *)
(***************************************************************************)
MaxPosts == 3       \* posts of a scripted timeline
MaxRuns == 2        \* process runs against the same base directory
LongTimeline == 21  \* posts of the long timeline

(***************************************************************************)
(* Program constants.                                                      *)
(***************************************************************************)
MaxInFlight == 20

(***************************************************************************)
(* Data: URLs, posts, page responses.                                      *)
(***************************************************************************)
\* A URL is its text cut into segments, with the query as key/value pairs.
Url(path, query) == [path |-> path, query |-> query]
EmptyUrl == Url(<<>>, <<>>)
LegacyPrefix == <<"https://video.weibo.com">>
CanonicalPrefix == <<"https://weibo.com", "/tv/show/">>

UrlLegacyFid == Url(<<"https://video.weibo.com", "/show">>, <<<<"fid", "1034:abcd123">>>>)
UrlLegacyNoFid == Url(<<"https://video.weibo.com", "/show">>, <<<<"type", "mp4">>>>)
UrlCanonical == Url(<<"https://weibo.com", "/tv/show/", "1034:abcd123">>, <<>>)
UrlOther == Url(<<"https://example.com", "/article">>, <<>>)

\* Option<T>: None is the empty sequence, Some(x) the sequence of x alone.
None == <<>>
Some(x) == <<x>>
IsSome(o) == Len(o) = 1
Unwrap(o) == o[1]

GoodCreatedAt == <<"Tue", "May", 31, "12:00:00", "+0800", 2022>>
BadCreatedAt == <<"2022-05-31T12:00:00+08:00">>

WeiboPost(id, created, pics, urls) ==
    [id |-> id, created_at |-> created, screen_name |-> "alice",
     text |-> "hello", pictures |-> pics, urls |-> urls]

PostA == WeiboPost(1, GoodCreatedAt, <<"a", "b">>, None)
PostB == WeiboPost(2, GoodCreatedAt, <<>>,
                  Some(<<EmptyUrl, UrlLegacyFid, UrlOther, UrlCanonical>>))
PostC == WeiboPost(3, GoodCreatedAt, <<>>, Some(<<UrlLegacyNoFid>>))
PostD == WeiboPost(4, BadCreatedAt, <<>>, None)

\* A response of the listing endpoint: whether the transport delivered it, its
\* HTTP status, and its body: Some(list of posts) when the body is JSON of the
\* shape { data: { list: [...] } }, None when it is anything else.
Response(transport, status, body) == [transport |-> transport, status |-> status, body |-> body]
EmptyPage == Response("ok", 200, Some(<<>>))

(***************************************************************************)
(* Pure functions.                                                         *)
(***************************************************************************)
MonthNumber(m) ==
    CASE m = "Jan" -> 1 [] m = "Feb" -> 2 [] m = "Mar" -> 3 [] m = "Apr" -> 4
      [] m = "May" -> 5 [] m = "Jun" -> 6 [] m = "Jul" -> 7 [] m = "Aug" -> 8
      [] m = "Sep" -> 9 [] m = "Oct" -> 10 [] m = "Nov" -> 11 [] m = "Dec" -> 12
      [] OTHER -> 0

\* OffsetDateTime::parse with "[weekday repr:short] [month repr:short] [day]
\* [hour]:[minute]:[second] [offset_hour sign:mandatory][offset_minute] [year]".
ParseCreatedAt(s) ==
    IF Len(s) = 6 /\ MonthNumber(s[2]) # 0
    THEN Some([year |-> s[6], month |-> MonthNumber(s[2]), day |-> s[3],
               time |-> s[4], offset |-> s[5]])
    ELSE None

\* dt.format("[year][month][day]")
FormatYMD(dt) == <<dt.year, dt.month, dt.day>>

\* format!("{}-{}-{}", date, id, screen_name)
gen_prefix(post) ==
    [date |-> FormatYMD(Unwrap(ParseCreatedAt(post.created_at))),
     id |-> post.id, name |-> post.screen_name]

\* {:02}
TwoDigits(n) == <<n \div 10, n % 10>>

\* a file name numbered from 0: format!("{}-img{:02}.jpg", prefix, i)
ImgNameZeroBased(prefix, n) ==
    [stem |-> prefix, kind |-> "img", nn |-> TwoDigits(n - 1), ext |-> ".jpg"]
\* format!("{}-img{:02}.jpg", prefix, i + 1), i + 1 being the 1-based position
ImgName(prefix, n) == [stem |-> prefix, kind |-> "img", nn |-> TwoDigits(n), ext |-> ".jpg"]
\* format!("{}-vid{:02}", prefix, i + 1); lux appends the extension
VidName(prefix, n) == [stem |-> prefix, kind |-> "vid", nn |-> TwoDigits(n), ext |-> ""]
\* format!("{}-content.txt", prefix)
ContentName(prefix) == [stem |-> prefix, kind |-> "content", nn |-> <<>>, ext |-> ".txt"]

StartsWith(url, pfx) ==
    /\ Len(url.path) >= Len(pfx)
    /\ SubSeq(url.path, 1, Len(pfx)) = pfx

\* query_pairs().find(|f| f.0 == "fid"): the first pair whose key is fid
RECURSIVE FindFid(_)
FindFid(query) ==
    IF query = <<>> THEN None
    ELSE IF Head(query)[1] = "fid" THEN Some(Head(query)[2])
    ELSE FindFid(Tail(query))

\* Option<Cow<str>>, or a panic of the unwrap on a missing fid
is_video(u) ==
    IF StartsWith(u, LegacyPrefix)
    THEN IF IsSome(FindFid(u.query))
         THEN [tag |-> "Some",
               url |-> Url(<<"https://weibo.com", "/tv/show/", Unwrap(FindFid(u.query))>>,
                           <<<<"from", "old_pc_videoshow">>>>)]
         ELSE [tag |-> "panic", url |-> EmptyUrl]
    ELSE IF StartsWith(u, CanonicalPrefix)
         THEN [tag |-> "Some", url |-> u]
         ELSE [tag |-> "None", url |-> EmptyUrl]

\* dt.format(&Rfc3339)
FormatRfc3339(dt) == <<dt.year, dt.month, dt.day, "T", dt.time, dt.offset>>

\* link: lines for the links that are videos only
RECURSIVE LinkLinesVideosOnly(_)
LinkLinesVideosOnly(us) ==
    IF us = <<>> THEN <<>>
    ELSE (IF StartsWith(Head(us), LegacyPrefix) \/ StartsWith(Head(us), CanonicalPrefix)
          THEN <<<<"link: ", Head(us)>>>> ELSE <<>>)
         \o LinkLinesVideosOnly(Tail(us))

\* the link: lines of write_text: one per entry whose url is not empty
RECURSIVE LinkLines(_)
LinkLines(us) ==
    IF us = <<>> THEN <<>>
    ELSE (IF Head(us) # EmptyUrl THEN <<<<"link: ", Head(us)>>>> ELSE <<>>)
         \o LinkLines(Tail(us))

\* the chunks write_text hands to write_all, in order
write_text(post) ==
    <<<<"url: ", <<"https://m.weibo.cn/status/", post.id>>>>,
      <<"user: ", post.screen_name>>,
      <<"created_at: ", FormatRfc3339(Unwrap(ParseCreatedAt(post.created_at)))>>>>
    \o (IF IsSome(post.urls) THEN LinkLines(Unwrap(post.urls)) ELSE <<>>)
    \o <<<<"\n", post.text>>>>

(***************************************************************************)
(* Results of download_post: Ok(()) or Err(anyhow::Error).  An error is    *)
(* its cause together with what its message names: the path of the file    *)
(* ("Could not write to <path>") or the url (reqwest errors, "Unable to    *)
(* download <url>"); the io errors of std name neither.                     *)
(***************************************************************************)
OkUnit == [ok |-> TRUE, cause |-> "", path |-> None, url |-> None]
Err(cause, path, url) == [ok |-> FALSE, cause |-> cause, path |-> path, url |-> url]

\* https://wx2.sinaimg.cn/large/{img_id}.jpg
ImageUrl(img_id) == Url(<<"https://wx2.sinaimg.cn", "/large/", img_id, ".jpg">>, <<>>)

(***************************************************************************)
(* The filesystem under the base directory.                                *)
(***************************************************************************)
PutFile(f, dir, name, data) ==
    {x \in f : ~(x.dir = dir /\ x.name = name)}
        \cup {[dir |-> dir, name |-> name, data |-> data]}

\* What a download does outside the process, tagged with the id of its post.
NoEvent == EmptyBag
Event(post, what) == SetToBag({[of |-> post.id, what |-> what]})

(***************************************************************************)
(* One download_post future: the post, the await it is suspended at        *)
(* ("start" before its first poll) and the index of the image or link.     *)
(***************************************************************************)
Future(post, pc, i) == [post |-> post, pc |-> pc, i |-> i]

\* The synchronous code between two awaits either suspends at the next await
\* or panics.
Suspend(t) == [kind |-> "pending", task |-> t]
Panic == [kind |-> "panic", task |-> Future(PostA, "start", 0)]

\* the videos loop from link j on: the next helper invocation, or the manifest
RECURSIVE VideosFrom(_, _)
VideosFrom(post, j) ==
    IF ~IsSome(post.urls) \/ j > Len(Unwrap(post.urls))
    THEN Suspend(Future(post, "text", 0))
    ELSE LET v == is_video(Unwrap(post.urls)[j])
         IN  CASE v.tag = "panic" -> Panic
               [] v.tag = "Some" -> Suspend(Future(post, "vid", j))
               [] OTHER -> VideosFrom(post, j + 1)

\* the images loop from picture i on
ImagesFrom(post, i) ==
    IF i <= Len(post.pictures)
    THEN Suspend(Future(post, "img", i))
    ELSE VideosFrom(post, 1)

\* What one poll of a future does: the outcome of the await it was suspended
\* at, then the code up to the next await.
Outcome(kind, task, res, how, d, f, net, helper, writes, out) ==
    [kind |-> kind, task |-> task, res |-> res, how |-> how, dirs |-> d,
     files |-> f, net |-> net, helper |-> helper, writes |-> writes, out |-> out]

Continue(cont, d, f, net, helper, writes) ==
    Outcome(cont.kind, cont.task, OkUnit, "", d, f, net, helper, writes, <<>>)

Return(res, how, d, f, net, helper, writes, out) ==
    Outcome("ready", Future(PostA, "start", 0), res, how, d, f, net, helper, writes, out)

\* weibo_download.rs parses created_at in download_post; weibo_post.rs has
\* parsed it while decoding the page.
DateParses(im, post) == im = "weibo_post" \/ IsSome(ParseCreatedAt(post.created_at))

\* a first poll without the exists check
PollStartNoSkip(im, t, d, f) ==
    IF ~DateParses(im, t.post)
    THEN {Return(Err("created_at", None, None), "failed", d, f,
                 NoEvent, NoEvent, NoEvent, <<>>)}
    ELSE {Continue(Suspend(Future(t.post, "mkdir", 0)), d, f, NoEvent, NoEvent, NoEvent)}

\* a first poll that skips the post only if its manifest exists
PollStartIfComplete(im, t, d, f) ==
    IF ~DateParses(im, t.post)
    THEN {Return(Err("created_at", None, None), "failed", d, f,
                 NoEvent, NoEvent, NoEvent, <<>>)}
    ELSE IF \E x \in f : x.dir = gen_prefix(t.post) /\ x.name = ContentName(gen_prefix(t.post))
    THEN {Return(OkUnit, "skipped", d, f, NoEvent, NoEvent, NoEvent, <<>>)}
    ELSE {Continue(Suspend(Future(t.post, "mkdir", 0)), d, f, NoEvent, NoEvent, NoEvent)}

\* first poll: prefix, exists check, create_dir_all submitted
PollStart(im, t, d, f) ==
    IF ~DateParses(im, t.post)
    THEN {Return(Err("created_at", None, None), "failed", d, f,
                 NoEvent, NoEvent, NoEvent, <<>>)}
    ELSE IF gen_prefix(t.post) \in d
    THEN {Return(OkUnit, "skipped", d, f, NoEvent, NoEvent, NoEvent, <<>>)}
    ELSE {Continue(Suspend(Future(t.post, "mkdir", 0)), d, f, NoEvent, NoEvent, NoEvent)}

\* fs::create_dir_all(&post_dir).await?
PollMkdir(t, d, f) ==
    { Continue(ImagesFrom(t.post, 1), d \cup {gen_prefix(t.post)}, f,
               NoEvent, NoEvent, Event(t.post, <<gen_prefix(t.post)>>)),
      Return(Err("create_dir_all", None, None), "failed", d, f,
             NoEvent, NoEvent, NoEvent, <<>>) }

\* a download_image whose failed request is dropped: the loop goes on
download_imageKeepGoing(t, d, f) ==
    LET prefix == gen_prefix(t.post)
        name == ImgName(prefix, t.i)
        img_id == t.post.pictures[t.i]
        get == Event(t.post, ImageUrl(img_id))
        create == Event(t.post, <<prefix, name>>)
    IN  { Continue(ImagesFrom(t.post, t.i + 1), d,
                   PutFile(f, prefix, name, <<"bytes", img_id>>), get, NoEvent, create),
          Continue(ImagesFrom(t.post, t.i + 1), d, f, get, NoEvent, NoEvent) }

\* download_image(client, img_id, path).await?: the image is written, or the
\* request fails (nothing on disk; File::create failing leaves the same), or
\* write_all fails on the created file
download_image(t, d, f) ==
    LET prefix == gen_prefix(t.post)
        name == ImgName(prefix, t.i)
        img_id == t.post.pictures[t.i]
        get == Event(t.post, ImageUrl(img_id))
        create == Event(t.post, <<prefix, name>>)
    IN  { Continue(ImagesFrom(t.post, t.i + 1), d,
                   PutFile(f, prefix, name, <<"bytes", img_id>>), get, NoEvent, create),
          Return(Err("get", None, Some(ImageUrl(img_id))), "failed", d, f,
                 get, NoEvent, NoEvent, <<>>),
          Return(Err("Could not write to", Some(<<prefix, name>>), None), "failed", d,
                 PutFile(f, prefix, name, <<"partial">>), get, NoEvent, create, <<>>) }

\* a download_video that numbers the file by its rank among the matches
download_videoRenumbered(t, d, f) ==
    LET prefix == gen_prefix(t.post)
        rank == Cardinality({j \in 1..t.i : is_video(Unwrap(t.post.urls)[j]).tag = "Some"})
        name == VidName(prefix, rank)
        u == is_video(Unwrap(t.post.urls)[t.i]).url
        lux == Event(t.post, <<name, u>>)
    IN  { Continue(VideosFrom(t.post, t.i + 1), d,
                   PutFile(f, prefix, name, <<"video", u>>), NoEvent, lux, NoEvent),
          Return(Err("Unable to download", None, Some(u)), "failed", d, f,
                 NoEvent, lux, NoEvent, <<>>) }

\* download_video(&u, path).await?: lux exits with 0 and has written the
\* video, or it exits with another status
download_video(t, d, f) ==
    LET prefix == gen_prefix(t.post)
        name == VidName(prefix, t.i)
        u == is_video(Unwrap(t.post.urls)[t.i]).url
        lux == Event(t.post, <<name, u>>)
    IN  { Continue(VideosFrom(t.post, t.i + 1), d,
                   PutFile(f, prefix, name, <<"video", u>>), NoEvent, lux, NoEvent),
          Return(Err("Unable to download", None, Some(u)), "failed", d, f,
                 NoEvent, lux, NoEvent, <<>>) }

\* a manifest-less PollText: success is reported without the file being written
PollTextUnwritten(t, d, f) ==
    {Return(OkUnit, "downloaded", d, f, NoEvent, NoEvent, NoEvent, <<t.post.id>>)}

\* the manifest, then println!("Downloaded {}", post.id); or the manifest
\* cannot be created
PollText(t, d, f) ==
    LET prefix == gen_prefix(t.post)
        name == ContentName(prefix)
    IN  { Return(OkUnit, "downloaded", d,
                 PutFile(f, prefix, name, <<"manifest", write_text(t.post)>>),
                 NoEvent, NoEvent, Event(t.post, <<prefix, name>>), <<t.post.id>>),
          Return(Err("File::create", None, None), "failed", d, f,
                 NoEvent, NoEvent, NoEvent, <<>>) }

download_post(im, t, d, f) ==
    CASE t.pc = "start" -> PollStart(im, t, d, f)
      [] t.pc = "mkdir" -> PollMkdir(t, d, f)
      [] t.pc = "img" -> download_image(t, d, f)
      [] t.pc = "vid" -> download_video(t, d, f)
      [] OTHER -> PollText(t, d, f)

(***************************************************************************)
(* The listing endpoint and the scenarios a behaviour starts from.         *)
(***************************************************************************)
PageLists == {<<PostA, PostB>>, <<PostA>>, <<PostC>>, <<PostD>>}

Responses ==
    {Response("ok", 200, Some(l)) : l \in PageLists}
        \cup { Response("failed", 0, None),        \* connection error
               Response("ok", 500, None),          \* error page
               Response("ok", 200, None),          \* body of another shape
               Response("ok", 500, Some(<<PostA>>)) }  \* error status, well-formed body

\* the posts a response carries
Carried(r) == IF IsSome(r.body) THEN Len(Unwrap(r.body)) ELSE 0

\* the scripts of the endpoint: no, one or two scripted responses that carry
\* at most MaxPosts posts together
Scripts ==
    {<<>>} \cup {<<r>> : r \in Responses}
        \cup {s \in {<<r1, r2>> : r1 \in Responses, r2 \in Responses} :
                 Carried(s[1]) > 0 /\ Carried(s[1]) + Carried(s[2]) <= MaxPosts}

\* a timeline of LongTimeline posts, already archived by an earlier run
LongPage == [k \in 1..LongTimeline |-> PostA]

\* the links of a post, none when the field is absent
Links(post) == IF IsSome(post.urls) THEN Unwrap(post.urls) ELSE <<>>

\* the files a download of the post leaves when every step succeeds
Archive(post) ==
    LET prefix == gen_prefix(post)
        File(name, data) == [dir |-> prefix, name |-> name, data |-> data]
    IN  {File(ImgName(prefix, i), <<"bytes", post.pictures[i]>>) :
             i \in 1..Len(post.pictures)}
        \cup {File(VidName(prefix, j), <<"video", is_video(Links(post)[j]).url>>) :
                 j \in {k \in 1..Len(Links(post)) : is_video(Links(post)[k]).tag = "Some"}}
        \cup {File(ContentName(prefix), <<"manifest", write_text(post)>>)}

Scenarios ==
    {[api |-> s, dirs |-> {}, files |-> {}] : s \in Scripts}
        \cup {[api |-> <<Response("ok", 200, Some(LongPage))>>,
               dirs |-> {gen_prefix(PostA)}, files |-> Archive(PostA)]}

\* the response to the request for page n: the script, then empty pages
ResponseAt(n) == IF n <= Len(api) THEN api[n] ELSE EmptyPage

\* .json::<Mymblog>(): weibo_post.rs deserializes created_at with
\* deserialize_datetime, weibo_download.rs keeps it as a String
Decode(im, body) ==
    IF ~IsSome(body) THEN None
    ELSE IF im = "weibo_post"
            /\ \E k \in 1..Len(Unwrap(body)) :
                   ~IsSome(ParseCreatedAt(Unwrap(body)[k].created_at))
         THEN None
         ELSE body

\* the new page put in front of the earlier ones
ExtendFront(ps, new_posts) == new_posts \o ps

\* posts.extend(new_posts)
Extend(ps, new_posts) == ps \o new_posts

\* a loop that breaks on a failed page and returns what it has
get_postsPartial(im, r, ps) ==
    LET new_posts == Decode(im, r.body)
    IN  IF r.transport # "ok" \/ ~IsSome(new_posts) \/ Unwrap(new_posts) = <<>>
        THEN [kind |-> "Ok", posts |-> ps]
        ELSE [kind |-> "loop", posts |-> Extend(ps, Unwrap(new_posts))]

\* one iteration of the loop of get_posts on the response r: the ? of send
\* or of json returns the error, an empty list breaks, any other list is
\* appended.  send() fails on a transport error only; the status is not read.
get_posts(im, r, ps) ==
    LET new_posts == Decode(im, r.body)
    IN  IF r.transport # "ok" \/ ~IsSome(new_posts)
        THEN [kind |-> "Err", posts |-> <<>>]
        ELSE IF Unwrap(new_posts) = <<>>
        THEN [kind |-> "Ok", posts |-> ps]
        ELSE [kind |-> "loop", posts |-> Extend(ps, Unwrap(new_posts))]

(***************************************************************************)
(* buffer_unordered(20) and collect.                                       *)
(***************************************************************************)
\* buffer_unordered pulls the next future from the stream while it holds
\* fewer than the limit
HasSlotOffByOne(fl) == BagCardinality(fl) <= MaxInFlight

HasSlot(fl) == BagCardinality(fl) < MaxInFlight

\* a window that is filled once and never again
RECURSIVE FillNoRefill(_, _, _)
FillNoRefill(ps, n, fl) ==
    IF n < Len(ps) /\ HasSlot(fl) /\ n = BagCardinality(fl)
    THEN FillNoRefill(ps, n + 1, fl (+) SetToBag({Future(ps[n + 1], "start", 0)}))
    ELSE [next |-> n, inflight |-> fl]

RECURSIVE Fill(_, _, _)
Fill(ps, n, fl) ==
    IF n < Len(ps) /\ HasSlot(fl)
    THEN Fill(ps, n + 1, fl (+) SetToBag({Future(ps[n + 1], "start", 0)}))
    ELSE [next |-> n, inflight |-> fl]

\* a filter that keeps the Ok results
RECURSIVE FilterOk(_)
FilterOk(rs) ==
    IF rs = <<>> THEN <<>>
    ELSE (IF Head(rs).res.ok THEN <<Head(rs)>> ELSE <<>>) \o FilterOk(Tail(rs))

\* a filter that also sorts the failures by post id
RECURSIVE FilterErrSortedById(_)
FilterErrSortedById(rs) ==
    IF rs = <<>> THEN <<>>
    ELSE LET rest == FilterErrSortedById(Tail(rs))
             h == Head(rs)
         IN  IF h.res.ok THEN rest
             ELSE SelectSeq(rest, LAMBDA r : r.of.id < h.of.id) \o <<h>>
                      \o SelectSeq(rest, LAMBDA r : r.of.id >= h.of.id)

\* .into_iter().filter(|r| r.is_err())
RECURSIVE FilterErr(_)
FilterErr(rs) ==
    IF rs = <<>> THEN <<>>
    ELSE (IF ~Head(rs).res.ok THEN <<Head(rs)>> ELSE <<>>) \o FilterErr(Tail(rs))

\* collect() is done when the stream is exhausted and no future is held
Collected(ps, n, fl) == n = Len(ps) /\ fl = EmptyBag

\* a collect that stops at the first Err, dropping the futures still held
BatchShortCircuit(ps, n, fl, rs) ==
    LET w == Fill(ps, n, fl)
        failed == \E k \in 1..Len(rs) : ~rs[k].res.ok
    IN  /\ next' = w.next
        /\ inflight' = IF failed THEN EmptyBag ELSE w.inflight
        /\ results' = rs
        /\ IF failed \/ Collected(ps, w.next, w.inflight)
           THEN phase' = "reporting" /\ errs' = FilterErr(rs)
           ELSE phase' = "downloading" /\ errs' = <<>>

\* the state of main after a poll of the collect future
Batch(ps, n, fl, rs) ==
    LET w == Fill(ps, n, fl)
    IN  /\ next' = w.next
        /\ inflight' = w.inflight
        /\ results' = rs
        /\ IF Collected(ps, w.next, w.inflight)
           THEN phase' = "reporting" /\ errs' = FilterErr(rs)
           ELSE phase' = "downloading" /\ errs' = <<>>

(***************************************************************************)
(* Initial state.                                                          *)
(***************************************************************************)
Init ==
    /\ impl \in {"weibo_download", "weibo_post"}
    /\ \E sc \in Scenarios : api = sc.api /\ dirs = sc.dirs /\ files = sc.files
    /\ run = 1
    /\ phase = IF impl = "weibo_post" THEN "auth" ELSE "listing"
    /\ exit = "running"
    /\ page = 1
    /\ requests = <<>>
    /\ posts = <<>>
    /\ next = 0
    /\ inflight = EmptyBag
    /\ results = <<>>
    /\ errs = <<>>
    /\ printed = <<>>
    /\ progress = <<>>
    /\ netReqs = EmptyBag
    /\ helperRuns = EmptyBag
    /\ fsWrites = EmptyBag
    /\ returned = EmptyBag
    /\ dirsAtStart = dirs
    /\ filesAtStart = files
    /\ prevExit = "none"

(***************************************************************************)
(* Actions.                                                                *)
(***************************************************************************)
\* main returns Err: the ? of get_posts
ExitErr ==
    /\ phase' = "exited"
    /\ exit' = "Err"

\* weibo_post.rs: let cookie = weibo_cookie(client).await?
WeiboCookie ==
    /\ phase = "auth"
    /\ \/ phase' = "listing" /\ exit' = exit
       \/ ExitErr
    /\ UNCHANGED <<impl, api, run, page, requests, posts, next, inflight, results,
                   errs, printed, progress, dirs, files, netReqs, helperRuns,
                   fsWrites, returned, dirsAtStart, filesAtStart, prevExit>>

\* one iteration of the loop of get_posts; on the empty page the loop breaks,
\* get_posts returns the posts and main polls the collect future for the
\* first time
GetPostsPage ==
    /\ phase = "listing"
    /\ requests' = Append(requests, page)
    /\ LET o == get_posts(impl, ResponseAt(page), posts)
       IN  CASE o.kind = "Err" ->
                  /\ ExitErr
                  /\ UNCHANGED <<page, posts, next, inflight, results, errs>>
             [] o.kind = "Ok" ->
                  /\ posts' = o.posts
                  /\ Batch(o.posts, 0, EmptyBag, <<>>)
                  /\ UNCHANGED <<page, exit>>
             [] OTHER ->
                  /\ posts' = o.posts
                  /\ page' = page + 1
                  /\ UNCHANGED <<phase, exit, next, inflight, results, errs>>
    /\ UNCHANGED <<impl, api, run, printed, progress, dirs, files, netReqs,
                   helperRuns, fsWrites, returned, dirsAtStart, filesAtStart, prevExit>>

\* buffer_unordered polls the future t, whose await has completed with outcome o
Polled(t, o) ==
    /\ dirs' = o.dirs
    /\ files' = o.files
    /\ netReqs' = netReqs (+) o.net
    /\ helperRuns' = helperRuns (+) o.helper
    /\ fsWrites' = fsWrites (+) o.writes
    /\ progress' = progress \o o.out
    /\ CASE o.kind = "pending" ->
              /\ inflight' = (inflight (-) SetToBag({t})) (+) SetToBag({o.task})
              /\ UNCHANGED <<phase, exit, next, results, errs, returned>>
         [] o.kind = "ready" ->
              /\ Batch(posts, next, inflight (-) SetToBag({t}),
                       Append(results, [res |-> o.res, of |-> t.post]))
              /\ returned' = returned (+) SetToBag({[post |-> t.post, how |-> o.how,
                                                     res |-> o.res]})
              /\ exit' = exit
         [] OTHER ->   \* the panic unwinds through block_on: the process aborts
              /\ phase' = "exited"
              /\ exit' = "panic"
              /\ inflight' = EmptyBag
              /\ UNCHANGED <<next, results, errs, returned>>
    /\ UNCHANGED <<impl, api, run, page, requests, posts, printed, dirsAtStart,
                   filesAtStart, prevExit>>

PollPost(pc) ==
    /\ phase = "downloading"
    /\ \E t \in BagToSet(inflight) :
          /\ t.pc = pc
          /\ \E o \in download_post(impl, t, dirs, files) : Polled(t, o)

StartPost == PollPost("start")
CreateDir == PollPost("mkdir")
DownloadImage == PollPost("img")
DownloadVideo == PollPost("vid")
WriteText == PollPost("text")

\* for r in results { eprintln!("{:?}", r) }
PrintFailure ==
    /\ phase = "reporting"
    /\ errs # <<>>
    /\ printed' = Append(printed, Head(errs))
    /\ errs' = Tail(errs)
    /\ UNCHANGED <<impl, api, run, phase, exit, page, requests, posts, next,
                   inflight, results, progress, dirs, files, netReqs, helperRuns,
                   fsWrites, returned, dirsAtStart, filesAtStart, prevExit>>

\* Ok(())
ReturnOk ==
    /\ phase = "reporting"
    /\ errs = <<>>
    /\ phase' = "exited"
    /\ exit' = "Ok"
    /\ UNCHANGED <<impl, api, run, page, requests, posts, next, inflight, results,
                   errs, printed, progress, dirs, files, netReqs, helperRuns,
                   fsWrites, returned, dirsAtStart, filesAtStart, prevExit>>

\* the program is started again on the same base directory
Rerun ==
    /\ phase = "exited"
    /\ run < MaxRuns
    /\ run' = run + 1
    /\ phase' = IF impl = "weibo_post" THEN "auth" ELSE "listing"
    /\ exit' = "running"
    /\ page' = 1
    /\ requests' = <<>>
    /\ posts' = <<>>
    /\ next' = 0
    /\ inflight' = EmptyBag
    /\ results' = <<>>
    /\ errs' = <<>>
    /\ printed' = <<>>
    /\ progress' = <<>>
    /\ netReqs' = EmptyBag
    /\ helperRuns' = EmptyBag
    /\ fsWrites' = EmptyBag
    /\ returned' = EmptyBag
    /\ dirsAtStart' = dirs
    /\ filesAtStart' = files
    /\ prevExit' = exit
    /\ UNCHANGED <<impl, api, dirs, files>>

Next ==
    \/ WeiboCookie
    \/ GetPostsPage
    \/ StartPost
    \/ CreateDir
    \/ DownloadImage
    \/ DownloadVideo
    \/ WriteText
    \/ PrintFailure
    \/ ReturnOk
    \/ Rerun

Spec == Init /\ [][Next]_vars

(***************************************************************************)
(* Properties.                                                             *)
(***************************************************************************)
RECURSIVE SeqToBag(_)
SeqToBag(q) == IF q = <<>> THEN EmptyBag ELSE SetToBag({Head(q)}) (+) SeqToBag(Tail(q))

Range(q) == {q[k] : k \in 1..Len(q)}

\* the downloads started and not finished: the futures buffer_unordered holds
InFlight == BagCardinality(inflight)

\* how often download_post has returned for the post p
Returns(p) == BagCardinality([e \in {x \in BagToSet(returned) : x.post = p} |-> returned[e]])

\* C1: at every moment at most 20 downloads are started and not finished,
\* however many posts were fetched.
C1_AtMostTwentyInFlight == InFlight <= MaxInFlight

\* C1 witness: more than 20 posts fetched, 20 downloads in flight, a post waiting.
C1_Witness ==
    /\ Len(posts) > MaxInFlight
    /\ InFlight = MaxInFlight
    /\ next < Len(posts)

\* C2: when main returns, download_post has been called and has returned once
\* for every fetched post, whatever failed and in whatever order.
C2_EveryPostRunsToCompletion ==
    exit = "Ok" =>
        /\ inflight = EmptyBag
        /\ next = Len(posts)
        /\ Len(results) = Len(posts)
        /\ \A p \in Range(posts) : Returns(p) = CopiesIn(p, SeqToBag(posts))

\* C2 witness: main has returned; the download that finished first failed and
\* one that finished after it archived its post completely.
C2_Witness ==
    /\ exit = "Ok"
    /\ Len(results) >= 2
    /\ ~results[1].res.ok
    /\ \E k \in 2..Len(results) :
          /\ results[k].res.ok
          /\ results[k].of.id \in Range(progress)
\* the post id an error's message names: the one in the path it holds, if any
NamedId(res) == IF IsSome(res.path) THEN Some(Unwrap(res.path)[1].id) ELSE None

\* the download_post calls that returned Err, as a bag of [post, res]
FailedReturns ==
    LET keys == {[post |-> e.post, res |-> e.res] :
                     e \in {x \in BagToSet(returned) : x.how = "failed"}}
    IN  [x \in keys |-> returned[[post |-> x.post, how |-> "failed", res |-> x.res]]]

\* what stderr holds, as a bag of [post, res]
PrintedFailures ==
    SeqToBag([k \in 1..Len(printed) |-> [post |-> printed[k].of, res |-> printed[k].res]])

\* nothing is printed while a download is queued or in flight
PrintedAfterBatch == printed # <<>> => Collected(posts, next, inflight)

RECURSIVE Consumed(_)
Consumed(k) ==
    IF /\ k <= Len(api)
       /\ api[k].transport = "ok"
       /\ IsSome(Decode(impl, api[k].body))
       /\ Unwrap(Decode(impl, api[k].body)) # <<>>
    THEN Consumed(k + 1)
    ELSE k - 1

RECURSIVE ConcatPages(_)
ConcatPages(n) == IF n = 0 THEN <<>> ELSE ConcatPages(n - 1) \o Unwrap(api[n].body)

ListingOk == phase \in {"downloading", "reporting"} \/ exit \in {"Ok", "panic"}

\* C4: the pages are requested as 1, 2, 3, ... and, once get_posts has
\* returned Ok, the last request is the one answered by the first empty page
\* and the posts are those of the pages before it, in page order and in the
\* order within each page.
C4_PagesInOrderUntilEmpty ==
    /\ requests = [k \in 1..Len(requests) |-> k]
    /\ phase = "listing" => page = Len(requests) + 1
    /\ ListingOk =>
          /\ Len(requests) = Consumed(1) + 1
          /\ posts = ConcatPages(Consumed(1))

\* C4 witness: two pages that are not empty, one of them with two posts, then
\* the empty page; the downloads have started.
C4_Witness ==
    /\ phase = "downloading"
    /\ requests = <<1, 2, 3>>
    /\ Len(posts) = 3
    /\ posts[1] # posts[2]

\* a page request that fails in transport, has a status outside 2xx or has a
\* body that does not decode
BadResponse(r) ==
    \/ r.transport # "ok"
    \/ r.status \notin 200..299
    \/ ~IsSome(Decode(impl, r.body))

NothingDownloaded ==
    /\ next = 0
    /\ inflight = EmptyBag
    /\ returned = EmptyBag
    /\ netReqs = EmptyBag
    /\ helperRuns = EmptyBag
    /\ fsWrites = EmptyBag
    /\ dirs = dirsAtStart
    /\ files = filesAtStart

\* C5 as claimed: once a page request of the run has failed in transport, by
\* its status or in decoding, the fetch has failed and nothing is downloaded.
C5_BadPageFailsFetch ==
    (\E k \in 1..Len(requests) : BadResponse(ResponseAt(requests[k])))
        => exit = "Err" /\ NothingDownloaded

\* C6: while the listing runs, and after it has failed, no download has
\* started and nothing was written; a download has started only if the last
\* page request was answered by an empty page.
C6_ListingBeforeDownloads ==
    /\ (phase \in {"auth", "listing"} \/ exit = "Err") => NothingDownloaded
    /\ (next > 0 \/ returned # EmptyBag) =>
          /\ requests # <<>>
          /\ ResponseAt(requests[Len(requests)]).transport = "ok"
          /\ Decode(impl, ResponseAt(requests[Len(requests)]).body) = Some(<<>>)

\* C6 witness: the listing failed on its second page, after a page of posts.
C6_Witness ==
    /\ exit = "Err"
    /\ Len(requests) = 2
    /\ posts # <<>>
\* the target directory of the post existed when this run started
ArchivedAtStart(p) ==
    /\ IsSome(ParseCreatedAt(p.created_at))
    /\ gen_prefix(p) \in dirsAtStart

NoWork ==
    /\ netReqs = EmptyBag
    /\ helperRuns = EmptyBag
    /\ fsWrites = EmptyBag
    /\ dirs = dirsAtStart
    /\ files = filesAtStart

NoFailure ==
    /\ \A e \in BagToSet(returned) : e.how # "failed"
    /\ printed = <<>>
    /\ exit \notin {"Err", "panic"}

\* C7 as claimed: in a run over the same posts that follows a run that
\* returned Ok, every target directory exists, nothing is requested, spawned
\* or written, no failure is reported and the filesystem stays as the first
\* run left it.
C7_SecondRunDoesNothing ==
    (run >= 2 /\ prevExit = "Ok" /\ ListingOk) =>
        /\ \A p \in Range(posts) : ArchivedAtStart(p)
        /\ NoWork
        /\ NoFailure

\* C7 amended: a run that starts with the target directory of every fetched
\* post in place (a second run, where the first one created them all)
\* requests, spawns and writes nothing, reports no failure and leaves the
\* filesystem as it found it.
C7_ArchivedRunDoesNothing ==
    (ListingOk /\ \A p \in Range(posts) : ArchivedAtStart(p)) =>
        /\ NoWork
        /\ NoFailure
        /\ \A e \in BagToSet(returned) : e.how = "skipped"

\* C7 witness: the second run over a scripted timeline of two or more posts
\* has returned, every directory having been created by the first run.
C7_Witness ==
    /\ run = 2
    /\ exit = "Ok"
    /\ Len(posts) >= 2
    /\ Len(posts) <= MaxPosts
    /\ Len(results) = Len(posts)
    /\ files # {}
    /\ \A p \in Range(posts) : ArchivedAtStart(p)

\* the run has requested, spawned and written nothing for the post with this id
NoWorkFor(id) ==
    /\ \A e \in BagToSet(netReqs) : e.of # id
    /\ \A e \in BagToSet(helperRuns) : e.of # id
    /\ \A e \in BagToSet(fsWrites) : e.of # id

FilesIn(f, dir) == {x \in f : x.dir = dir}

\* C8: a download that failed after create_dir_all leaves the directory on
\* disk, directories are never removed, and a post whose directory existed
\* when the run started is skipped: Ok, nothing requested, spawned or written
\* for it, its directory left as it was, complete or not.
C8_DirectoryIsTheOnlyGuard ==
    /\ dirsAtStart \subseteq dirs
    /\ \A e \in BagToSet(returned) :
          /\ (e.how = "failed" /\ e.res.cause \notin {"created_at", "create_dir_all"})
                => gen_prefix(e.post) \in dirs
          /\ ArchivedAtStart(e.post) =>
                /\ e.how = "skipped"
                /\ e.res = OkUnit
                /\ NoWorkFor(e.post.id)
                /\ FilesIn(files, gen_prefix(e.post)) = FilesIn(filesAtStart, gen_prefix(e.post))

\* C8 witness: the second run has returned without a failure; it skipped a
\* post with pictures whose directory the first run left empty.
C8_Witness ==
    /\ run = 2
    /\ exit = "Ok"
    /\ printed = <<>>
    /\ \E e \in BagToSet(returned) :
          /\ e.how = "skipped"
          /\ e.post.pictures # <<>>
          /\ gen_prefix(e.post) \in dirs
          /\ FilesIn(files, gen_prefix(e.post)) = {}

\* a link of the legacy video host that carries no fid
LegacyWithoutFid(p) ==
    /\ IsSome(p.urls)
    /\ \E k \in 1..Len(Unwrap(p.urls)) :
          /\ StartsWith(Unwrap(p.urls)[k], LegacyPrefix)
          /\ ~IsSome(FindFid(Unwrap(p.urls)[k].query))

\* C9 as claimed: a post with a legacy link without fid fails alone: the
\* process is not aborted, and once it has ended every fetched post has
\* returned and every failure is printed.
C9_MissingFidFailsOnlyItsPost ==
    (ListingOk /\ \E p \in Range(posts) : LegacyWithoutFid(p)) =>
        /\ exit # "panic"
        /\ phase = "exited" =>
              /\ \A p \in Range(posts) : Returns(p) = CopiesIn(p, SeqToBag(posts))
              /\ PrintedFailures = FailedReturns

\* the listing phase of this run has succeeded
ListingSucceeded ==
    /\ requests # <<>>
    /\ ResponseAt(requests[Len(requests)]).transport = "ok"
    /\ Decode(impl, ResponseAt(requests[Len(requests)]).body) = Some(<<>>)

\* C10 as claimed: the run ends in success exactly when its listing phase
\* succeeded, whatever the downloads did.
C10_ExitReflectsListingOnly ==
    phase = "exited" => (exit = "Ok" <=> ListingSucceeded)

\* the manifests in a directory
Manifests(f, dir) == {x \in f : x.dir = dir /\ x.name.kind = "content"}

\* a download of this run that wrote its manifest into the directory
DownloadedInto(dir) ==
    \E e \in BagToSet(returned) : e.how = "downloaded" /\ gen_prefix(e.post) = dir

ResolveAsClaimed(u) ==
    IF StartsWith(u, LegacyPrefix) /\ IsSome(FindFid(u.query))
    THEN [tag |-> "Some",
          url |-> Url(<<"https://weibo.com", "/tv/show/", Unwrap(FindFid(u.query))>>,
                      <<<<"from", "old_pc_videoshow">>>>)]
    ELSE IF StartsWith(u, CanonicalPrefix)
         THEN [tag |-> "Some", url |-> u]
         ELSE [tag |-> "None", url |-> EmptyUrl]

\* C12 as claimed: for every link of every fetched post, is_video returns what
\* the three rules give, applied in order to the url alone.
C12_ResolverRulesInOrder ==
    \A p \in Range(posts) :
        \A k \in 1..Len(Links(p)) : is_video(Links(p)[k]) = ResolveAsClaimed(Links(p)[k])

\* the post was fetched once: what the run did for its id was done by one download
Once(p) == Cardinality({k \in 1..Len(posts) : posts[k] = p}) = 1

\* what the run has requested, spawned or written for a post id, each once
EventsOf(bag, id) == {e.what : e \in {x \in BagToSet(bag) : x.of = id}}
EachOnce(bag, id) == \A e \in BagToSet(bag) : e.of = id => bag[e] = 1

\* the positions of the links that is_video matches
Matches(p) == {j \in 1..Len(Links(p)) : is_video(Links(p)[j]).tag = "Some"}
\* the first n of them
FirstMatches(p, n) == {j \in Matches(p) : Cardinality({i \in Matches(p) : i <= j}) <= n}

ImageWritesIn(writes) == {x \in writes : Len(x) = 2 /\ x[2].kind = "img"}
ManifestWritten(p) ==
    <<gen_prefix(p), ContentName(gen_prefix(p))>> \in EventsOf(fsWrites, p.id)

\* the steps done so far for the post are a leading part of: directory, the
\* images in list order (request, then file), the matching videos in links
\* order, the manifest
StepsInSequence(p) ==
    LET prefix == gen_prefix(p)
        k == Len(p.pictures)
        reqs == EventsOf(netReqs, p.id)
        writes == EventsOf(fsWrites, p.id)
        runs == EventsOf(helperRuns, p.id)
        a == Cardinality(reqs)
        w == Cardinality(ImageWritesIn(writes))
        v == Cardinality(runs)
    IN  /\ EachOnce(netReqs, p.id) /\ EachOnce(helperRuns, p.id) /\ EachOnce(fsWrites, p.id)
        /\ (a > 0 \/ v > 0 \/ writes # {}) => <<prefix>> \in writes
        /\ a <= k /\ w <= a /\ a <= w + 1
        /\ reqs = {ImageUrl(p.pictures[i]) : i \in 1..a}
        /\ ImageWritesIn(writes) = {<<prefix, ImgName(prefix, i)>> : i \in 1..w}
        /\ v > 0 => w = k
        /\ runs = {<<VidName(prefix, j), is_video(Links(p)[j]).url>> : j \in FirstMatches(p, v)}
        /\ <<prefix, ContentName(prefix)>> \in writes
              => (w = k /\ v = Cardinality(Matches(p)))

\* a failed download has stopped at the step that failed
StoppedAtFailure(p, res) ==
    LET prefix == gen_prefix(p)
        writes == EventsOf(fsWrites, p.id)
        a == Cardinality(EventsOf(netReqs, p.id))
        w == Cardinality(ImageWritesIn(writes))
        v == Cardinality(EventsOf(helperRuns, p.id))
    IN  /\ <<prefix, ContentName(prefix)>> \notin writes
        /\ p.id \notin Range(progress)
        /\ res.cause = "create_dir_all" => writes = {}
        /\ res.cause = "get" =>
              /\ v = 0 /\ a = w + 1
              /\ res.url = Some(ImageUrl(p.pictures[a]))
        /\ res.cause = "Could not write to" =>
              /\ v = 0 /\ a = w /\ a >= 1
              /\ res.path = Some(<<prefix, ImgName(prefix, a)>>)
        /\ res.cause = "Unable to download" =>
              /\ v >= 1
              /\ \E j \in FirstMatches(p, v) :
                    /\ \A i \in FirstMatches(p, v) : i <= j
                    /\ res.url = Some(is_video(Links(p)[j]).url)

VideoFiles(p) == {x \in FilesIn(files, gen_prefix(p)) : x.name.kind = "vid"}

\* C14: every helper invocation for a post fetched once is for one link that
\* is_video matches, with the resolved url of that link and the file name
\* <prefix>-vidNN, NN being the position of the link among all the links of
\* the post; no link is invoked twice; once the post is downloaded, every
\* matching link has had its one invocation and left its file, and the links
\* that do not match (the empty url among them) have none.
C14_OneHelperPerMatchNumberedByPosition ==
    \A p \in Range(posts) :
        (Once(p) /\ IsSome(ParseCreatedAt(p.created_at))) =>
            /\ EachOnce(helperRuns, p.id)
            /\ \A x \in EventsOf(helperRuns, p.id) :
                  \E j \in 1..Len(Links(p)) :
                      /\ x[1] = [stem |-> gen_prefix(p), kind |-> "vid",
                                 nn |-> <<j \div 10, j % 10>>, ext |-> ""]
                      /\ is_video(Links(p)[j]) = [tag |-> "Some", url |-> x[2]]
            /\ (\E e \in BagToSet(returned) : e.post = p /\ e.how = "downloaded") =>
                  /\ \A j \in 1..Len(Links(p)) :
                        Cardinality({x \in EventsOf(helperRuns, p.id) :
                                         x[1].nn = <<j \div 10, j % 10>>})
                            = IF is_video(Links(p)[j]).tag = "Some" THEN 1 ELSE 0
                  /\ {x.name.nn : x \in VideoFiles(p)} =
                         {<<j \div 10, j % 10>> : j \in Matches(p)}

\* C14 witness: a post whose first and third link do not match and whose
\* second and fourth do has been downloaded: two helper invocations.
C14_Witness ==
    \E e \in BagToSet(returned) :
        /\ e.how = "downloaded" /\ Once(e.post)
        /\ Len(Links(e.post)) = 4
        /\ Matches(e.post) = {2, 4}
        /\ Cardinality(EventsOf(helperRuns, e.post.id)) = 2

\* the image files in the directory of a post
ImageFiles(p) == {x \in FilesIn(files, gen_prefix(p)) : x.name.kind = "img"}

\* C15: every image file in the directory of a fetched post is
\* <prefix>-imgNN.jpg for a list position NN of the post and holds the
\* picture at that position (or what a failed write left of it); once a post
\* fetched once with k pictures is downloaded, its directory holds the k files
\* img01..imgk, each with the picture of its position - in every behaviour,
\* whatever the order in which the downloads of the run were polled and
\* completed.
C15_ImageNumberIsListPosition ==
    \A p \in Range(posts) :
        IsSome(ParseCreatedAt(p.created_at)) =>
            /\ \A x \in ImageFiles(p) :
                  \E i \in 1..Len(p.pictures) :
                      /\ x.name = [stem |-> gen_prefix(p), kind |-> "img",
                                   nn |-> <<i \div 10, i % 10>>, ext |-> ".jpg"]
                      /\ x.data \in {<<"bytes", p.pictures[i]>>, <<"partial">>}
            /\ (Once(p) /\ \E e \in BagToSet(returned) : e.post = p /\ e.how = "downloaded") =>
                  /\ Cardinality(ImageFiles(p)) = Len(p.pictures)
                  /\ \A i \in 1..Len(p.pictures) :
                        \E x \in ImageFiles(p) :
                            /\ x.name.nn = <<i \div 10, i % 10>>
                            /\ x.data = <<"bytes", p.pictures[i]>>

\* C15 witness: of two fetched posts the second completed first; the first,
\* with two pictures, was downloaded after it.
C15_Witness ==
    /\ Len(posts) = 2
    /\ Len(results) = 2
    /\ results[1].of = posts[2]
    /\ results[2].of = posts[1]
    /\ results[2].of.id \in Range(progress)
    /\ Len(posts[1].pictures) = 2
    /\ Cardinality(ImageFiles(posts[1])) = 2

\* the manifest the run left for a post: the chunks written, in order
ManifestOf(p) ==
    (CHOOSE x \in Manifests(files, gen_prefix(p)) : TRUE).data[2]

NonEmptyUrl(u) == u # EmptyUrl

\* C16: the manifest of a downloaded post is, in this order, the url line with
\* the post id, the user line, the created_at line with the timestamp in
\* RFC 3339 form, one link: line for each link whose url is not empty - video
\* or not, in links order - and the blank line followed by the raw text; a
\* post without a links field has no link: line.
C16_ManifestLinesInFixedOrder ==
    \A e \in BagToSet(returned) :
        e.how = "downloaded" =>
            LET p == e.post
                m == ManifestOf(p)
                c == p.created_at
                shown == SelectSeq(Links(p), NonEmptyUrl)
            IN  /\ Len(m) = 4 + Len(shown)
                /\ m[1] = <<"url: ", <<"https://m.weibo.cn/status/", p.id>>>>
                /\ m[2] = <<"user: ", p.screen_name>>
                /\ m[3] = <<"created_at: ",
                            <<c[6], MonthNumber(c[2]), c[3], "T", c[4], c[5]>>>>
                /\ \A k \in 1..Len(shown) : m[3 + k] = <<"link: ", shown[k]>>
                /\ m[Len(m)] = <<"\n", p.text>>
                /\ ~IsSome(p.urls) => Len(m) = 4

\* C16 witness: two posts are downloaded, one without a links field and one
\* whose links hold an empty url, two videos and a link that is no video.
C16_Witness ==
    /\ \E e \in BagToSet(returned) : e.how = "downloaded" /\ ~IsSome(e.post.urls)
    /\ \E e \in BagToSet(returned) :
          /\ e.how = "downloaded"
          /\ EmptyUrl \in Range(Links(e.post))
          /\ \E k \in 1..Len(Links(e.post)) :
                /\ Links(e.post)[k] # EmptyUrl
                /\ is_video(Links(e.post)[k]).tag = "None"
          /\ Len(ManifestOf(e.post)) = 7

(***************************************************************************)
(* Fairness.  The executor polls a future whose await has completed, and   *)
(* main runs on once collect has returned: every step of the downloads and *)
(* of the report that stays enabled is eventually taken.  Nothing obliges  *)
(* the listing endpoint to answer or the user to run the program again.    *)
(***************************************************************************)
RunsOn ==
    \/ StartPost
    \/ CreateDir
    \/ DownloadImage
    \/ DownloadVideo
    \/ WriteText
    \/ PrintFailure
    \/ ReturnOk

FairSpec == Spec /\ WF_vars(RunsOn)

\* every download of the run finishes: no link makes is_video panic
EveryDownloadFinishes == \A p \in Range(posts) : ~LegacyWithoutFid(p)

AllPostsFinished ==
    /\ inflight = EmptyBag
    /\ next = Len(posts)
    /\ \A p \in Range(posts) : Returns(p) = CopiesIn(p, SeqToBag(posts))

\* C17: while the downloads run, a post is queued only if 20 downloads are in
\* flight (a freed slot is taken at once); and, the steps of the downloads
\* being taken fairly and every download finishing, a run whose downloads
\* have begun leads to main returning Ok with every post finished.
C17_WorkConservingAndTerminates ==
    /\ [](phase = "downloading" => (next < Len(posts) => InFlight = MaxInFlight))
    /\ [](exit = "Ok" => AllPostsFinished)
    /\ (phase = "downloading" /\ EveryDownloadFinishes) ~> (exit = "Ok" /\ AllPostsFinished)

\* C17 witness: main has returned from a run over more posts than the window
\* holds: the post that had to wait for a slot was started and has finished.
C17_Witness ==
    /\ exit = "Ok"
    /\ Len(posts) > MaxInFlight
    /\ AllPostsFinished

IsErrResult(r) == ~r.res.ok

\* C18: the failures are written to stderr in the order in which the failing
\* downloads completed (the order of the collected results): at every moment
\* of the report, what is printed followed by what is still to print is the
\* failing results in completion order.
C18_FailuresInCompletionOrder ==
    (phase = "reporting" \/ exit = "Ok") =>
        printed \o errs = SelectSeq(results, IsErrResult)

\* C18 witness: two posts failed, the second of the list first; main has
\* printed the failure of the second before that of the first.
C18_Witness ==
    /\ exit = "Ok"
    /\ Len(posts) = 2
    /\ posts[1] # posts[2]
    /\ Len(printed) = 2
    /\ printed[1].of = posts[2]
    /\ printed[2].of = posts[1]

\* the download has passed its exists check and works on its directory
PastExistsCheck(t) == t.pc # "start"

\* C19 as claimed: no two downloads in flight work on the same target
\* directory, whatever list was fetched.
C19_InFlightDirectoriesDisjoint ==
    \A t \in BagToSet(inflight) :
        PastExistsCheck(t) =>
            /\ inflight[t] = 1
            /\ \A u \in BagToSet(inflight) :
                  (PastExistsCheck(u) /\ u # t) => gen_prefix(u.post) # gen_prefix(t.post)

\* the loop of get_posts from page k on, as the implementation im runs it on
\* the responses of this behaviour
RECURSIVE ListingUnder(_, _, _)
ListingUnder(im, k, ps) ==
    LET o == get_posts(im, ResponseAt(k), ps)
    IN  IF o.kind = "loop" THEN ListingUnder(im, k + 1, o.posts) ELSE o

OtherImpl == IF impl = "weibo_download" THEN "weibo_post" ELSE "weibo_download"

\* C20 as claimed: on the same page responses the other implementation does
\* what this one did: where this run's listing failed, so does the other's;
\* where it succeeded, the other's succeeds with the same posts to download.
C20_ImplementationsAgree ==
    requests # <<>> =>
        /\ exit = "Err" => ListingUnder(OtherImpl, 1, <<>>).kind = "Err"
        /\ ListingOk => ListingUnder(OtherImpl, 1, <<>>) = [kind |-> "Ok", posts |-> posts]

====
